---- MODULE Spec2Model ----
(***************************************************************************)
(* Model of scripts/validate.mjs of DDRCardDraw: the consistency checks of *)
(* validateContents over one catalog document, and the driver that loads   *)
(* every data file, validates it against the schema, runs the consistency  *)
(* checks, and regenerates the SongData type file when nothing failed.     *)
(*                                                                         *)
(* Representation of JavaScript values:                                    *)
(*   - an optional property is a sequence of length <= 1: <<>> is an       *)
(*     absent property (undefined), <<v>> a present one;                   *)
(*   - a dictionary is a function whose DOMAIN is its set of keys;         *)
(*   - an error string is a tuple of its literal text and interpolated     *)
(*     values, e.g. `${song.name} is missing a draw group` is              *)
(*     <<name, "is missing a draw group">>.                                *)
(***************************************************************************)
EXTENDS Integers, Sequences, FiniteSets, TLC

VARIABLES
  dataFileNames,      \* readdirSync(src/songs): the file names, in listing order
  songsDir,           \* src/songs: the document each file holds
  idx,                \* position of the for-of loop in dataFileNames
  pc,                 \* position of the script
  songData,           \* the document imported in this iteration
  result,             \* validateJSONSchema's result for songData
  consistencyErrors,  \* validateContents' return value for songData
  hasError,           \* the module-level failure flag
  console,            \* console.error / console.log lines, in order
  schemaFile,         \* src/models/SongData.ts as this run wrote it
  exitCode            \* the process's exit status, once it has exited

vars == <<dataFileNames, songsDir, idx, pc, songData, result, consistencyErrors,
          hasError, console, schemaFile, exitCode>>

----------------------------------------------------------------------------
(* JavaScript value semantics used by validate.mjs *)

Undefined == <<>>

Some(v) == <<v>>

\* ToBoolean of an optional number: undefined and 0 are falsy
TruthyNum(x) == x # Undefined /\ x[1] # 0

\* ToBoolean of an optional string: undefined and "" are falsy
TruthyStr(x) == x # Undefined /\ x[1] # ""

\* x > n for an optional number x: undefined > n is false (NaN comparison)
GreaterThan(x, n) == x # Undefined /\ x[1] > n

\* obj[key] on a dictionary: undefined when the key is missing
Lookup(dict, key) == IF key \in DOMAIN dict THEN Some(dict[key]) ELSE Undefined

Range(s) == {s[i] : i \in DOMAIN s}

RECURSIVE Flatten(_)
Flatten(ss) == IF ss = <<>> THEN <<>> ELSE Head(ss) \o Flatten(Tail(ss))

\* [cond ? msg : nothing]: an if whose body is a single errors.push
PushIf(cond, msg) == IF cond THEN <<msg>> ELSE <<>>

----------------------------------------------------------------------------
(* validateContents, src/scripts/validate.mjs lines 12-98 *)

\* existsSync(join(jacketsDir, jacket)): the files of src/assets/jackets
jacketsDir == {"a.png", "b.png"}

existsSync(jacket) == jacket \in jacketsDir

difficultyKeys(dataFile) ==
  [i \in DOMAIN dataFile.meta.difficulties |-> dataFile.meta.difficulties[i].key]

allKeys(dataFile) ==
  dataFile.meta.styles \o difficultyKeys(dataFile) \o dataFile.meta.flags

styles(dataFile) == Range(dataFile.meta.styles)

difficulties(dataFile) == Range(difficultyKeys(dataFile))

flags(dataFile) == Range(dataFile.meta.flags)

lvlMaxCheck(dataFile) ==
  PushIf(dataFile.meta.lvlMax < 1, <<"max level is below 1">>)

defaultStyleCheck(dataFile) ==
  PushIf(TruthyStr(dataFile.defaults.style)
           /\ dataFile.defaults.style[1] \notin styles(dataFile),
         <<"default style is not listed in meta">>)

defaultDifficultiesCheck(dataFile) ==
  PushIf(\E i \in DOMAIN dataFile.defaults.difficulties :
            dataFile.defaults.difficulties[i] \notin difficulties(dataFile),
         <<"some default difficulties are missing from meta">>)

boundsReversedCheck(dataFile) ==
  PushIf(dataFile.defaults.lowerLvlBound > dataFile.defaults.upperLvlBound,
         <<"default level bounds are reversed">>)

boundsBeyondMaxCheck(dataFile) ==
  PushIf(dataFile.defaults.lowerLvlBound > dataFile.meta.lvlMax
           \/ dataFile.defaults.upperLvlBound > dataFile.meta.lvlMax,
         <<"default level bounds are beyond max level">>)

\* One iteration of the loop over allKeys (lines 54-62).  Reading [key] of
\* an absent $abbr dictionary is a TypeError; && evaluates its right operand
\* only when the left one is truthy.
translationKeyCheck(dataFile, key) ==
  LET en == dataFile.i18n["en"]
      ja == dataFile.i18n["ja"]
      missing == PushIf(~(TruthyStr(Lookup(en.strings, key))
                            /\ TruthyStr(Lookup(ja.strings, key))),
                        <<"missing translation for", key>>)
      abbrMsg == <<"missing abbreviated translation for", key>>
  IN  IF key \notin difficulties(dataFile)
        THEN [threw |-> FALSE, errors |-> missing]
      ELSE IF en.abbr = Undefined
        THEN [threw |-> TRUE, errors |-> missing]
      ELSE IF ~TruthyStr(Lookup(en.abbr[1], key))
        THEN [threw |-> FALSE, errors |-> Append(missing, abbrMsg)]
      ELSE IF ja.abbr = Undefined
        THEN [threw |-> TRUE, errors |-> missing]
      ELSE [threw |-> FALSE,
            errors |-> missing
                         \o PushIf(~TruthyStr(Lookup(ja.abbr[1], key)), abbrMsg)]

RECURSIVE translationLoop(_, _)
translationLoop(dataFile, keys) ==
  IF keys = <<>> THEN [threw |-> FALSE, errors |-> <<>>]
  ELSE LET first == translationKeyCheck(dataFile, Head(keys))
           rest == translationLoop(dataFile, Tail(keys))
       IN  IF first.threw THEN first
           ELSE [threw |-> rest.threw, errors |-> first.errors \o rest.errors]

\* lines 52-64
translationCheck(dataFile) ==
  IF "ja" \in DOMAIN dataFile.i18n
    THEN translationLoop(dataFile, allKeys(dataFile))
    ELSE [threw |-> FALSE, errors |-> <<>>]

\* lines 67-72
jacketCheck(song) ==
  PushIf(TruthyStr(song.jacket) /\ ~existsSync(song.jacket[1]),
         <<"missing jacket image", song.jacket[1]>>)

\* lines 75-93
chartStyleCheck(dataFile, song, chart) ==
  PushIf(chart.style \notin styles(dataFile),
         <<"unrecognized style", chart.style, "used by", song.name>>)

chartDiffClassCheck(dataFile, song, chart) ==
  PushIf(chart.diffClass \notin difficulties(dataFile),
         <<"unrecognized diffClass", chart.diffClass, "used by", song.name>>)

chartLevelCheck(dataFile, song, chart) ==
  IF dataFile.meta.usesDrawGroups
    THEN IF ~TruthyNum(chart.drawGroup)
           THEN << <<song.name, "is missing a draw group">> >>
           ELSE PushIf(chart.drawGroup[1] > dataFile.meta.lvlMax,
                       <<song.name, "has draw group above max">>)
    ELSE PushIf(GreaterThan(chart.lvl, dataFile.meta.lvlMax),
                <<song.name, "has chart above level max">>)

chartChecks(dataFile, song, chart) ==
  chartStyleCheck(dataFile, song, chart)
    \o chartDiffClassCheck(dataFile, song, chart)
    \o chartLevelCheck(dataFile, song, chart)

\* songChecks with the jacket looked at after the charts
songChecks_JacketLast(dataFile, song) ==
  Flatten([j \in DOMAIN song.charts |->
             chartChecks(dataFile, song, song.charts[j])])
    \o jacketCheck(song)

\* one iteration of the loop over dataFile.songs (lines 66-95)
songChecks(dataFile, song) ==
  jacketCheck(song)
    \o Flatten([j \in DOMAIN song.charts |->
                  chartChecks(dataFile, song, song.charts[j])])

songsLoop(dataFile) ==
  Flatten([i \in DOMAIN dataFile.songs |-> songChecks(dataFile, dataFile.songs[i])])

\* The call's outcome: the returned errors array, or an exception thrown out
\* of the translation loop before the song loop was reached.
validateContents(dataFile) ==
  LET tr == translationCheck(dataFile)
  IN  IF tr.threw
        THEN [threw |-> TRUE, errors |-> <<>>]
        ELSE [threw |-> FALSE,
              errors |-> lvlMaxCheck(dataFile)
                           \o defaultStyleCheck(dataFile)
                           \o defaultDifficultiesCheck(dataFile)
                           \o boundsReversedCheck(dataFile)
                           \o boundsBeyondMaxCheck(dataFile)
                           \o tr.errors
                           \o songsLoop(dataFile)]

----------------------------------------------------------------------------
(* validateJSONSchema(songData, songsSchema, {nestedErrors: true}).  The    *)
(* schema file songs.schema.json is not part of the sources at hand: a      *)
(* document carries the list of its structural violations, which is what    *)
(* the schema validator reports; a document without any is structurally     *)
(* valid.                                                                   *)

validateJSONSchema(data) ==
  [valid |-> data.schemaViolations = <<>>, errors |-> data.schemaViolations]

----------------------------------------------------------------------------
(* The driver, src/scripts/validate.mjs lines 100-144 *)

NoData ==
  [meta |-> <<>>, defaults |-> <<>>, i18n |-> <<>>, songs |-> <<>>,
   schemaViolations |-> <<>>]

NoResult == [valid |-> FALSE, errors |-> <<>>]

ErrorLine(text) == [stream |-> "error", text |-> text]

LogLine(text) == [stream |-> "log", text |-> text]

\* consistencyErrors.forEach((err) => console.error(" * " + err))
ConsistencyLines(errors) ==
  [i \in DOMAIN errors |-> ErrorLine(<<" * ">> \o errors[i])]

\* result.errors.forEach((error) => console.error(error.toString()))
SchemaLines(errors) == [i \in DOMAIN errors |-> ErrorLine(<<errors[i]>>)]

dataFile == dataFileNames[idx]

\* lines 101-106: the loop takes the next file name and imports the file
LoopNext ==
  /\ pc = "loop"
  /\ idx <= Len(dataFileNames)
  /\ songData' = songsDir[dataFile]
  /\ pc' = "schema"
  /\ UNCHANGED <<dataFileNames, songsDir, idx, result, consistencyErrors, hasError,
                 console, schemaFile, exitCode>>

\* lines 107-109
ValidateSchema ==
  /\ pc = "schema"
  /\ result' = validateJSONSchema(songData)
  /\ pc' = "branch"
  /\ UNCHANGED <<dataFileNames, songsDir, idx, songData, consistencyErrors, hasError,
                 console, schemaFile, exitCode>>

\* lines 111-112: the call returns, or throws; nothing catches the exception,
\* so the module's evaluation rejects and node exits with status 1
CallValidateContents ==
  /\ pc = "branch"
  /\ result.valid
  /\ LET outcome == validateContents(songData)
     IN  IF outcome.threw
           THEN /\ pc' = "crashed"
                /\ exitCode' = Some(1)
                /\ console' = Append(console, ErrorLine(<<"TypeError">>))
                /\ UNCHANGED consistencyErrors
           ELSE /\ pc' = "report"
                /\ consistencyErrors' = outcome.errors
                /\ UNCHANGED <<console, exitCode>>
  /\ UNCHANGED <<dataFileNames, songsDir, idx, songData, result, hasError, schemaFile>>

EndIteration ==
  /\ idx' = idx + 1
  /\ pc' = "loop"
  /\ songData' = NoData
  /\ result' = NoResult
  /\ consistencyErrors' = <<>>

\* lines 113-116
ReportInconsistent ==
  /\ pc = "report"
  /\ Len(consistencyErrors) # 0
  /\ console' = console \o ConsistencyLines(consistencyErrors)
                  \o <<LogLine(<<dataFile, "has inconsistent data!">>)>>
  /\ hasError' = TRUE
  /\ EndIteration
  /\ UNCHANGED <<dataFileNames, songsDir, schemaFile, exitCode>>

\* lines 117-119
ReportGood ==
  /\ pc = "report"
  /\ Len(consistencyErrors) = 0
  /\ console' = Append(console, LogLine(<<dataFile, "looks good!">>))
  /\ EndIteration
  /\ UNCHANGED <<dataFileNames, songsDir, hasError, schemaFile, exitCode>>

\* ReportIssues without line 125: the flag is not set
ReportIssues_NoFlag ==
  /\ pc = "branch"
  /\ ~result.valid
  /\ console' = console \o SchemaLines(result.errors)
                  \o <<LogLine(<<dataFile, "has issues!">>)>>
  /\ EndIteration
  /\ UNCHANGED <<dataFileNames, songsDir, hasError, schemaFile, exitCode>>

\* lines 120-126
ReportIssues ==
  /\ pc = "branch"
  /\ ~result.valid
  /\ console' = console \o SchemaLines(result.errors)
                  \o <<LogLine(<<dataFile, "has issues!">>)>>
  /\ hasError' = TRUE
  /\ EndIteration
  /\ UNCHANGED <<dataFileNames, songsDir, schemaFile, exitCode>>

\* line 127: the listing is exhausted
LoopEnd ==
  /\ pc = "loop"
  /\ idx > Len(dataFileNames)
  /\ pc' = "afterLoop"
  /\ UNCHANGED <<dataFileNames, songsDir, idx, songData, result, consistencyErrors,
                 hasError, console, schemaFile, exitCode>>

\* lines 129-131
ExitOnError ==
  /\ pc = "afterLoop"
  /\ hasError
  /\ exitCode' = Some(1)
  /\ pc' = "exited"
  /\ UNCHANGED <<dataFileNames, songsDir, idx, songData, result, consistencyErrors,
                 hasError, console, schemaFile>>

\* CompileSchema without the exit of lines 129-131 before it
CompileSchema_Unguarded ==
  /\ pc = "afterLoop"
  /\ console' = Append(console, LogLine(<<"Building schema file">>))
  /\ pc' = "compiled"
  /\ UNCHANGED <<dataFileNames, songsDir, idx, songData, result,
                 consistencyErrors, hasError, schemaFile, exitCode>>

\* lines 133-142
CompileSchema ==
  /\ pc = "afterLoop"
  /\ ~hasError
  /\ console' = Append(console, LogLine(<<"Building schema file">>))
  /\ pc' = "compiled"
  /\ UNCHANGED <<dataFileNames, songsDir, idx, songData, result, consistencyErrors,
                 hasError, schemaFile, exitCode>>

\* lines 143-144, and the end of the module: node exits with status 0
WriteSchema ==
  /\ pc = "compiled"
  /\ schemaFile' = Some("SongData")
  /\ console' = Append(console, LogLine(<<"Schema written to ", "src/models/SongData.ts">>))
  /\ exitCode' = Some(0)
  /\ pc' = "exited"
  /\ UNCHANGED <<dataFileNames, songsDir, idx, songData, result, consistencyErrors,
                 hasError>>

Next ==
  \/ LoopNext
  \/ ValidateSchema
  \/ CallValidateContents
  \/ ReportInconsistent
  \/ ReportGood
  \/ ReportIssues
  \/ LoopEnd
  \/ ExitOnError
  \/ CompileSchema
  \/ WriteSchema

----------------------------------------------------------------------------
(* The documents the runs are checked on *)

MaxLvl == 2

MaxSongs == 2

MaxCharts == 2

NumFiles == 2

Levels == 0..MaxLvl

Doc(meta, defaults, i18n, songs) ==
  [meta |-> meta, defaults |-> defaults, i18n |-> i18n, songs |-> songs,
   schemaViolations |-> <<>>]

Meta(styleList, difficultyList, flagList, lvlMax, usesDrawGroups) ==
  [styles |-> styleList,
   difficulties |-> [i \in DOMAIN difficultyList |-> [key |-> difficultyList[i]]],
   flags |-> flagList, lvlMax |-> lvlMax, usesDrawGroups |-> usesDrawGroups]

\* a locale dictionary: its strings, and its $abbr sub-dictionary if any
Locale(keys, abbr) == [strings |-> [k \in keys |-> "text"], abbr |-> abbr]

Abbr(keys) == Some([k \in keys |-> "abbr"])

\* -- meta and defaults ----------------------------------------------------
BaseMeta(lvlMax, usesDrawGroups) ==
  Meta(<<"single">>, <<"basic">>, <<"shock">>, lvlMax, usesDrawGroups)

Metas == {BaseMeta(l, u) : l \in Levels, u \in BOOLEAN}

Defaults ==
  [style : {Undefined, Some("single"), Some("versus")},
   difficulties : {<<"basic">>, <<"basic", "oni">>},
   flags : {<<>>, <<"plus">>},
   lowerLvlBound : 1..(MaxLvl + 1),
   upperLvlBound : 1..(MaxLvl + 1)]

GoodDefaults ==
  [style |-> Some("single"), difficulties |-> <<"basic">>, flags |-> <<>>,
   lowerLvlBound |-> 1, upperLvlBound |-> 1]

BadDefaults ==
  [style |-> Some("versus"), difficulties |-> <<"oni">>, flags |-> <<"plus">>,
   lowerLvlBound |-> MaxLvl + 1, upperLvlBound |-> 1]

\* -- i18n -----------------------------------------------------------------
BaseKeys == {"single", "basic", "shock"}

\* a locale of the base meta: complete, or lacking one string, with $abbr
\* absent, empty or complete
Locales ==
  {Locale(ks, ab) : ks \in {BaseKeys} \cup {BaseKeys \ {k} : k \in BaseKeys},
                    ab \in {Undefined, Abbr({}), Abbr({"basic"})}}

FullLocale == Locale(BaseKeys, Abbr({"basic"}))

EnOnly == [l \in {"en"} |-> FullLocale]

WithLocales(en, others) ==
  [l \in {"en"} \cup DOMAIN others |-> IF l = "en" THEN en ELSE others[l]]

I18ns ==
  {WithLocales(en, others) :
     en \in Locales,
     others \in UNION {[ls -> Locales] : ls \in {{}, {"ja"}}}}
  \cup
  {WithLocales(en, others) :
     en \in {FullLocale, Locale({"basic", "shock"}, Abbr({}))},
     others \in UNION {[ls -> {FullLocale, Locale({"single"}, Undefined)}] :
                         ls \in {{"ko"}, {"ja", "ko"}}}}

\* en only; ja complete; ja lacking strings; en without $abbr (a TypeError)
I18nSamples ==
  {EnOnly,
   WithLocales(FullLocale, [l \in {"ja"} |-> FullLocale]),
   WithLocales(FullLocale, [l \in {"ja"} |-> Locale({"basic"}, Abbr({}))]),
   WithLocales(Locale(BaseKeys, Undefined), [l \in {"ja"} |-> FullLocale])}

\* -- songs and charts -----------------------------------------------------
SongNames == <<"A", "B", "C", "D">>

Chart(style, diffClass, drawGroup, lvl) ==
  [style |-> style, diffClass |-> diffClass, drawGroup |-> drawGroup, lvl |-> lvl]

Song(name, jacket, charts) == [name |-> name, jacket |-> jacket, charts |-> charts]

ChartLevels ==
  {<<dg, Some(1)>> : dg \in {Undefined} \cup {Some(n) : n \in 0..(MaxLvl + 1)}}
  \cup {<<Undefined, lvl>> : lvl \in {Undefined} \cup {Some(n) : n \in 0..(MaxLvl + 1)}}
  \cup {<<Some(1), Some(MaxLvl + 1)>>, <<Some(MaxLvl + 1), Some(1)>>}

Charts ==
  {Chart(s, d, l[1], l[2]) :
     s \in {"single", "versus"}, d \in {"basic", "oni"}, l \in ChartLevels}

Jackets == {Undefined, Some("a.png"), Some("missing.png")}

GoodChart == Chart("single", "basic", Some(1), Some(1))

BadChart == Chart("versus", "oni", Undefined, Some(MaxLvl + 1))

SeqsUpTo(S, n) == UNION {[1..k -> S] : k \in 0..n}

\* one song with one chart, every chart and jacket
SingleSongs == {<<Song("A", j, <<c>>)>> : j \in Jackets, c \in Charts}

\* up to MaxSongs songs of up to MaxCharts charts, each chart good or bad
SongShapes ==
  [jacket : {Undefined, Some("missing.png")},
   charts : SeqsUpTo({GoodChart, BadChart}, MaxCharts)]

SongLists ==
  {[i \in DOMAIN shapes |-> Song(SongNames[i], shapes[i].jacket, shapes[i].charts)] :
     shapes \in SeqsUpTo(SongShapes, MaxSongs)}

SongSamples == {<<>>, <<Song("A", Some("missing.png"), <<BadChart>>)>>}

\* -- documents ------------------------------------------------------------
\* other lists of keys, with the locales that go with them
KeyedDocs ==
  {Doc(Meta(ss, ds, fs, 1, FALSE), GoodDefaults, i, <<>>) :
     ss \in {<<"single">>, <<"single", "double">>},
     ds \in {<<>>, <<"basic">>, <<"basic", "expert">>},
     fs \in {<<>>, <<"shock">>},
     i \in {WithLocales(Locale({"single", "double", "basic", "expert", "shock"},
                               Abbr({"basic", "expert"})),
                        [l \in {"ja"} |-> ja]) :
              ja \in {Locale({"single", "double", "basic", "expert", "shock"},
                             Abbr({"basic", "expert"})),
                      Locale({"double", "expert"}, Abbr({"expert"})),
                      Locale({}, Abbr({}))}}}

\* every meta and defaults, with sample locales and songs
DocumentDocs ==
  {Doc(m, d, i, s) : m \in Metas, d \in Defaults, i \in I18nSamples, s \in SongSamples}

\* every i18n, with sample metas, defaults and songs
TranslationDocs ==
  {Doc(m, d, i, s) : m \in {BaseMeta(0, FALSE), BaseMeta(1, FALSE)},
                     d \in {GoodDefaults, BadDefaults},
                     i \in I18ns, s \in SongSamples}

\* every single song, with every meta
SingleSongDocs == {Doc(m, GoodDefaults, EnOnly, s) : m \in Metas, s \in SingleSongs}

\* every list of songs, under both level policies
SongListDocs ==
  {Doc(BaseMeta(1, u), GoodDefaults, EnOnly, s) : u \in BOOLEAN, s \in SongLists}

\* files the schema validator rejects, e.g. "songs" is not an array
InvalidDocs ==
  {[NoData EXCEPT !.schemaViolations = v] :
     v \in {<<"instance.songs is not of a type(s) array">>,
            <<"instance.meta requires property \"lvlMax\"",
              "instance.songs[0] requires property \"charts\"">>}}

\* the documents of the driver's runs: consistent ones, inconsistent ones,
\* ones validateContents throws on, and ones the schema rejects
DriverDocs ==
  {Doc(BaseMeta(1, FALSE), GoodDefaults, EnOnly, <<>>),
   Doc(BaseMeta(MaxLvl, TRUE), GoodDefaults,
       WithLocales(FullLocale, [l \in {"ja"} |-> FullLocale]),
       <<Song("A", Some("a.png"), <<GoodChart>>)>>),
   Doc(BaseMeta(0, FALSE), GoodDefaults, EnOnly, <<>>),
   Doc(BaseMeta(1, TRUE), BadDefaults, EnOnly,
       <<Song("A", Some("missing.png"), <<BadChart>>)>>),
   Doc(BaseMeta(1, FALSE), GoodDefaults,
       WithLocales(Locale(BaseKeys, Undefined), [l \in {"ja"} |-> FullLocale]),
       <<>>),
   Doc(BaseMeta(0, FALSE), BadDefaults,
       WithLocales(FullLocale, [l \in {"ja"} |-> Locale(BaseKeys, Undefined)]),
       <<Song("A", Some("missing.png"), <<BadChart>>)>>)}
  \cup InvalidDocs

FileNames == <<"a.json", "b.json", "c.json", "d.json">>

InitWith(names, docs) ==
  /\ dataFileNames = names
  /\ songsDir \in [Range(names) -> docs]
  /\ idx = 1
  /\ pc = "loop"
  /\ songData = NoData
  /\ result = NoResult
  /\ consistencyErrors = <<>>
  /\ hasError = FALSE
  /\ console = <<>>
  /\ schemaFile = Undefined
  /\ exitCode = Undefined

\* a run over NumFiles data files
Init == InitWith(SubSeq(FileNames, 1, NumFiles), DriverDocs)

Spec == Init /\ [][Next]_vars

\* a run over a single data file, for the claims about validateContents
InitContents ==
  \/ InitWith(<<"a.json">>, DocumentDocs)
  \/ InitWith(<<"a.json">>, TranslationDocs)
  \/ InitWith(<<"a.json">>, SingleSongDocs)
  \/ InitWith(<<"a.json">>, SongListDocs)
  \/ InitWith(<<"a.json">>, KeyedDocs)
  \/ InitWith(<<"a.json">>, InvalidDocs)

SpecContents == InitContents /\ [][Next]_vars

----------------------------------------------------------------------------
(* Vocabulary of the properties *)

Count(seq, x) == Cardinality({i \in DOMAIN seq : seq[i] = x})

RECURSIVE IsSubseq(_, _)
\* s is t with some entries left out
IsSubseq(s, t) ==
  IF s = <<>> THEN TRUE
  ELSE IF t = <<>> THEN FALSE
  ELSE IF Head(s) = Head(t) THEN IsSubseq(Tail(s), Tail(t))
  ELSE IsSubseq(s, Tail(t))

Min(S) == CHOOSE x \in S : \A y \in S : x <= y

Max(S) == CHOOSE x \in S : \A y \in S : x >= y

DocOf(i) == songsDir[dataFileNames[i]]

SchemaValid(doc) == validateJSONSchema(doc).valid

\* the document passed both validations
Passed(doc) ==
  /\ SchemaValid(doc)
  /\ ~validateContents(doc).threw
  /\ validateContents(doc).errors = <<>>

\* the document had a schema error or a consistency error
HadError(doc) ==
  \/ ~SchemaValid(doc)
  \/ /\ ~validateContents(doc).threw
     /\ validateContents(doc).errors # <<>>

\* the per-file summary lines of the loop
IsSummary(line) ==
  /\ line.stream = "log"
  /\ Len(line.text) = 2
  /\ line.text[2] \in {"looks good!", "has inconsistent data!", "has issues!"}

\* what the console shows for one file: the lines up to its summary line,
\* after the summary line of the file before
LinesOf(name) ==
  LET owner(j) ==
        LET later == {k \in j..Len(console) : IsSummary(console[k])}
        IN  IF later = {} THEN "" ELSE console[Min(later)].text[1]
      mine == {j \in DOMAIN console : owner(j) = name}
  IN  IF mine = {} THEN <<>> ELSE SubSeq(console, Min(mine), Max(mine))

\* validateContents was called on the single file of SpecContents and has
\* returned (its value is consistencyErrors) or thrown
Returned == pc = "report"

Threw == pc = "crashed"

Called == Returned \/ Threw

\* what the call reported to its caller
Reported == IF Returned THEN Range(consistencyErrors) ELSE {}

----------------------------------------------------------------------------
(* C1 *)

\* C1: a document that fails schema validation gets its schema errors and the
\* "has issues!" line on the console and nothing else, validateContents is
\* never called on it (the script never holds a validateContents outcome
\* while that document is the loop's document), and hasError is set once the
\* document is processed.
C1_SchemaInvalidShortCircuits ==
  \A i \in DOMAIN dataFileNames :
    LET name == dataFileNames[i]
        doc == DocOf(i)
    IN  ~SchemaValid(doc) =>
          /\ idx = i => /\ pc \in {"loop", "schema", "branch"}
                        /\ consistencyErrors = <<>>
          /\ idx > i =>
               /\ hasError
               /\ LinesOf(name) = SchemaLines(doc.schemaViolations)
                                    \o <<LogLine(<<name, "has issues!">>)>>
               /\ \A k \in DOMAIN LinesOf(name) : LinesOf(name)[k].text[1] # " * "

\* a schema-invalid file was processed, followed by a structurally valid one
\* that was reported inconsistent
C1_Witness ==
  /\ pc = "afterLoop"
  /\ ~SchemaValid(DocOf(1))
  /\ SchemaValid(DocOf(2))
  /\ LogLine(<<dataFileNames[2], "has inconsistent data!">>) \in Range(console)

----------------------------------------------------------------------------
(* C2 *)

\* C2: every document of the listing is validated, whatever happened to the
\* earlier ones: when the loop has ended hasError is set exactly if some
\* document had a schema or consistency error, and the process exits only
\* after the last document, with failure status exactly in that case.
C2_EveryDocumentValidated ==
  LET someError == \E i \in DOMAIN dataFileNames : HadError(DocOf(i))
  IN  /\ pc = "afterLoop" => (hasError <=> someError)
      /\ exitCode # Undefined =>
           /\ idx > Len(dataFileNames)
           /\ (exitCode = Some(1)) <=> someError

----------------------------------------------------------------------------
(* C3 *)

\* C3: the type file is compiled and written only after the loop has ended
\* and only if every document passed both validations; once the process has
\* ended, the file was written exactly if every document passed; and the
\* exit with status 0 comes only after the file was written.
C3_GenerationOnlyAfterAllPassed ==
  LET allPassed == \A i \in DOMAIN dataFileNames : Passed(DocOf(i))
      generating == pc = "compiled" \/ schemaFile # Undefined
  IN  /\ generating => idx > Len(dataFileNames) /\ allPassed
      /\ exitCode # Undefined => (schemaFile # Undefined <=> allPassed)
      /\ exitCode = Some(0) => schemaFile # Undefined

\* a run of several files, all good, ended with the file written
C3_Witness ==
  /\ pc = "exited"
  /\ exitCode = Some(0)
  /\ schemaFile = Some("SongData")
  /\ Len(dataFileNames) >= 2
  /\ DocOf(1) # DocOf(2)

----------------------------------------------------------------------------
(* The data model's invariants, as the specification states them *)

KeysOf(doc) == Range(allKeys(doc))

OtherLocales(doc) == DOMAIN doc.i18n \ {"en"}

HasString(locale, key) == key \in DOMAIN locale.strings

HasAbbr(locale, key) == locale.abbr # Undefined /\ key \in DOMAIN locale.abbr[1]

\* the positions <<i, j>> of the charts of the document
ChartsOf(doc) ==
  {ij \in (DOMAIN doc.songs) \X (1..MaxCharts) : ij[2] \in DOMAIN doc.songs[ij[1]].charts}

ChartAt(doc, ij) == doc.songs[ij[1]].charts[ij[2]]

LvlMaxOk(doc) == doc.meta.lvlMax >= 1

DefaultStyleOk(doc) ==
  doc.defaults.style = Undefined \/ doc.defaults.style[1] \in styles(doc)

DefaultDifficultiesOk(doc) ==
  Range(doc.defaults.difficulties) \subseteq difficulties(doc)

BoundsOrdered(doc) == doc.defaults.lowerLvlBound <= doc.defaults.upperLvlBound

BoundsWithinMax(doc) ==
  /\ doc.defaults.lowerLvlBound <= doc.meta.lvlMax
  /\ doc.defaults.upperLvlBound <= doc.meta.lvlMax

\* the key has a translation in en and in the locale
Translated(doc, l, key) ==
  HasString(doc.i18n["en"], key) /\ HasString(doc.i18n[l], key)

Abbreviated(doc, l, key) ==
  HasAbbr(doc.i18n["en"], key) /\ HasAbbr(doc.i18n[l], key)

TranslationsComplete(doc) ==
  \A l \in OtherLocales(doc) :
    /\ \A key \in KeysOf(doc) : Translated(doc, l, key)
    /\ \A key \in difficulties(doc) : Abbreviated(doc, l, key)

JacketOk(song) == song.jacket = Undefined \/ existsSync(song.jacket[1])

ChartLevelOk(doc, chart) ==
  IF doc.meta.usesDrawGroups
    THEN chart.drawGroup # Undefined /\ chart.drawGroup[1] <= doc.meta.lvlMax
    ELSE chart.lvl # Undefined /\ chart.lvl[1] <= doc.meta.lvlMax

SatisfiesInvariants(doc) ==
  /\ LvlMaxOk(doc)
  /\ DefaultStyleOk(doc)
  /\ DefaultDifficultiesOk(doc)
  /\ BoundsOrdered(doc)
  /\ BoundsWithinMax(doc)
  /\ TranslationsComplete(doc)
  /\ \A i \in DOMAIN doc.songs : JacketOk(doc.songs[i])
  /\ \A ij \in ChartsOf(doc) :
       /\ ChartAt(doc, ij).style \in styles(doc)
       /\ ChartAt(doc, ij).diffClass \in difficulties(doc)
       /\ ChartLevelOk(doc, ChartAt(doc, ij))

----------------------------------------------------------------------------
(* C4 *)

\* C4: on a document that satisfies every invariant of the data model,
\* validateContents returns the empty error sequence.
C4_ConsistentDocumentHasNoErrors ==
  (Called /\ SatisfiesInvariants(songData)) =>
     (Returned /\ consistencyErrors = <<>>)

----------------------------------------------------------------------------
(* C5 *)

\* C5: on a document with a locale other than en, the returned sequence has
\* exactly one "missing translation for <key>" entry for each key lacking a
\* translation in en or in such a locale and none for the other keys, and
\* likewise one "missing abbreviated translation for <key>" entry for each
\* difficulty key lacking an abbreviation in en or in such a locale.
C5_TranslationErrorsPerMissingKey ==
  (Returned /\ OtherLocales(songData) # {}) =>
     /\ \A key \in KeysOf(songData) :
          Count(consistencyErrors, <<"missing translation for", key>>)
            = IF \E l \in OtherLocales(songData) : ~Translated(songData, l, key)
                THEN 1 ELSE 0
     /\ \A key \in difficulties(songData) :
          Count(consistencyErrors, <<"missing abbreviated translation for", key>>)
            = IF \E l \in OtherLocales(songData) : ~Abbreviated(songData, l, key)
                THEN 1 ELSE 0

----------------------------------------------------------------------------
(* C6 *)

DocumentMessages(doc) ==
  << <<"max level is below 1">>,
     <<"default style is not listed in meta">>,
     <<"some default difficulties are missing from meta">>,
     <<"default level bounds are reversed">>,
     <<"default level bounds are beyond max level">> >>
  \o Flatten([k \in DOMAIN allKeys(doc) |->
                << <<"missing translation for", allKeys(doc)[k]>>,
                   <<"missing abbreviated translation for", allKeys(doc)[k]>> >>])

JacketMessages(song) ==
  IF song.jacket = Undefined THEN <<>>
  ELSE << <<"missing jacket image", song.jacket[1]>> >>

ChartMessages(song, chart) ==
  << <<"unrecognized style", chart.style, "used by", song.name>>,
     <<"unrecognized diffClass", chart.diffClass, "used by", song.name>>,
     <<song.name, "is missing a draw group">>,
     <<song.name, "has draw group above max">>,
     <<song.name, "has chart above level max">> >>

\* every message the checks can produce for the document: the document's
\* checks in check order, then song by song, the song's jacket first and
\* then chart by chart
SongMajorMessages(doc) ==
  DocumentMessages(doc)
    \o Flatten([i \in DOMAIN doc.songs |->
                  JacketMessages(doc.songs[i])
                    \o Flatten([j \in DOMAIN doc.songs[i].charts |->
                                  ChartMessages(doc.songs[i], doc.songs[i].charts[j])])])

\* the place of an error's check in the list of checks
CheckRank(err) ==
  CASE err = <<"max level is below 1">> -> 1
    [] err = <<"default style is not listed in meta">> -> 2
    [] err = <<"some default difficulties are missing from meta">> -> 3
    [] err = <<"default level bounds are reversed">> -> 4
    [] err = <<"default level bounds are beyond max level">> -> 5
    [] err[1] \in {"missing translation for", "missing abbreviated translation for"} -> 6
    [] err[1] = "missing jacket image" -> 7
    [] err[1] \in {"unrecognized style", "unrecognized diffClass"} -> 8
    [] OTHER -> 9

\* C6 (as stated): of any two errors of the returned sequence, the one of the
\* earlier check comes first.
C6_CheckMajorOrder ==
  Returned =>
    \A p, q \in DOMAIN consistencyErrors :
      p < q => CheckRank(consistencyErrors[p]) <= CheckRank(consistencyErrors[q])

\* C6 (amended): the returned sequence lists the errors of the document-level
\* checks in check order (translations key by key), and then the errors song
\* by song in document order: a song's jacket error, then the errors of each
\* of its charts in document order (style, diffClass, level or draw group).
C6_SongMajorOrder ==
  Returned => IsSubseq(consistencyErrors, SongMajorMessages(songData))

\* a chart error of the first song is followed by the jacket error of the
\* second, after a document-level error
C6_Witness ==
  /\ Returned
  /\ Len(songData.songs) >= 2
  /\ \E p, q \in DOMAIN consistencyErrors :
       /\ p < q
       /\ consistencyErrors[p] = <<"A", "has chart above level max">>
       /\ consistencyErrors[q] = <<"missing jacket image", "missing.png">>
  /\ songData.songs[1].jacket = Undefined
  /\ Len(songData.songs[2].charts) >= 2

----------------------------------------------------------------------------
(* C7 *)

\* C7: when usesDrawGroups is true every chart without a drawGroup yields
\* "<song> is missing a draw group", every chart whose drawGroup is present
\* and above lvlMax yields "<song> has draw group above max", and no chart
\* yields "<song> has chart above level max"; when it is false every chart
\* with lvl > lvlMax yields "<song> has chart above level max" and no chart
\* yields a draw-group error; no other chart yields a level-policy error.
C7_OneLevelPolicyPerChart ==
  Returned =>
    \A i \in DOMAIN songData.songs :
      LET name == songData.songs[i].name
          max == songData.meta.lvlMax
          uses == songData.meta.usesDrawGroups
          absent(c) == uses /\ c.drawGroup = Undefined
          above(c) == uses /\ c.drawGroup # Undefined /\ c.drawGroup[1] > max
          lvlAbove(c) == ~uses /\ c.lvl # Undefined /\ c.lvl[1] > max
          \* as many <<name, text>> errors as charts of songs of that name
          \* for which Holds
          LevelErrors(text, Holds(_)) ==
            Count(consistencyErrors, <<name, text>>)
              = Cardinality({ij \in ChartsOf(songData) :
                               /\ songData.songs[ij[1]].name = name
                               /\ Holds(ChartAt(songData, ij))})
      IN  /\ LevelErrors("is missing a draw group", absent)
          /\ LevelErrors("has draw group above max", above)
          /\ LevelErrors("has chart above level max", lvlAbove)

----------------------------------------------------------------------------
(* C8 *)

\* C8: validateContents reports "default level bounds are reversed" exactly
\* when lowerLvlBound > upperLvlBound, "default level bounds are beyond max
\* level" exactly when a bound exceeds lvlMax, and "max level is below 1"
\* exactly when lvlMax < 1.
C8_BoundErrorsExactlyWhenViolated ==
  Called =>
    /\ <<"default level bounds are reversed">> \in Reported
         <=> ~BoundsOrdered(songData)
    /\ <<"default level bounds are beyond max level">> \in Reported
         <=> ~BoundsWithinMax(songData)
    /\ <<"max level is below 1">> \in Reported <=> ~LvlMaxOk(songData)

----------------------------------------------------------------------------
(* C9 *)

\* C9: validateContents never throws on a structurally valid document.
C9_NeverThrows == ~Threw

----------------------------------------------------------------------------
(* C10 *)

\* C10: every check runs whatever the earlier ones found: the call returns a
\* sequence that holds the error of every check whose violation condition
\* holds, and no error about default flags.
C10_EveryViolationReported ==
  Called =>
    /\ Returned
    /\ ~LvlMaxOk(songData) => <<"max level is below 1">> \in Reported
    /\ ~DefaultStyleOk(songData)
         => <<"default style is not listed in meta">> \in Reported
    /\ ~DefaultDifficultiesOk(songData)
         => <<"some default difficulties are missing from meta">> \in Reported
    /\ ~BoundsOrdered(songData) => <<"default level bounds are reversed">> \in Reported
    /\ ~BoundsWithinMax(songData)
         => <<"default level bounds are beyond max level">> \in Reported
    /\ \A i \in DOMAIN songData.songs :
         ~JacketOk(songData.songs[i])
           => <<"missing jacket image", songData.songs[i].jacket[1]>> \in Reported
    /\ \A ij \in ChartsOf(songData) :
         LET song == songData.songs[ij[1]]
             chart == ChartAt(songData, ij)
         IN  /\ chart.style \notin styles(songData)
                  => <<"unrecognized style", chart.style, "used by", song.name>>
                       \in Reported
             /\ chart.diffClass \notin difficulties(songData)
                  => <<"unrecognized diffClass", chart.diffClass, "used by", song.name>>
                       \in Reported
    /\ <<"some default flags are missing from meta">> \notin Reported

====
